---- MODULE Spec2Model ----
(***************************************************************************)
(* A model of scripts/macs_to_hf.py: the MACS -> HuggingFace converter.    *)
(*                                                                         *)
(* Text is modelled as a sequence of tokens.  A token is either a word     *)
(* (one or more word characters, e.g. "audio", "a1_wav") or one of the     *)
(* punctuation characters "/", ",", ";", "TAB" (a tab) and "Q" (a double   *)
(* quote).  Python's None is the value None, pandas' NaN the value NaN;    *)
(* neither is a text any input contains.                                   *)
(***************************************************************************)
EXTENDS Integers, Sequences, FiniteSets, TLC

VARIABLES
    audio_root,    \* argument audio_root
    meta_csv,      \* the metadata file: [sep, table], its text is FileText(meta_csv)
    yaml_file,     \* the annotation document as yaml.safe_load sees it
    out_dir,       \* argument out_dir (None when not given)
    push_to_hub,   \* argument push_to_hub (None when not given)
    hf_token,      \* argument hf_token (None when not given)
    pc,            \* position of convert_macs_to_hf
    meta_lookup,   \* local meta_lookup
    yaml_items,    \* local yaml_items
    idx,           \* number of yaml_items the for loop has consumed
    rows,          \* local rows
    ds_all,        \* the datasets.Dataset built (its rows), NoDataset before
    err,           \* the exception that ended the run, "none" otherwise
    failed_at,     \* the step that raised it
    written,       \* the output directory holds files of this run
    pushed,        \* the remote repository received this run's dataset
    returned,      \* convert_macs_to_hf returned ds_all
    second_run,    \* TRUE in the second of two runs on the same inputs
    prev_rows,     \* the records the first run produced
    csv_table,     \* (CsvSpec) a table of cells
    csv_comma,     \* (CsvSpec) smart_read_csv of its comma-separated file
    csv_tab        \* (CsvSpec) smart_read_csv of its tab-separated file

vars == <<audio_root, meta_csv, yaml_file, out_dir, push_to_hub, hf_token, pc,
          meta_lookup, yaml_items, idx, rows, ds_all, err, failed_at, written,
          pushed, returned, second_run, prev_rows, csv_table, csv_comma, csv_tab>>

pipeline_vars == <<audio_root, meta_csv, yaml_file, out_dir, push_to_hub, hf_token,
                   pc, meta_lookup, yaml_items, idx, rows, ds_all, err, failed_at,
                   written, pushed, returned, second_run, prev_rows>>

csv_vars == <<csv_table, csv_comma, csv_tab>>

-----------------------------------------------------------------------------
(* Values *)

None == <<"None">>
NaN == <<"NaN">>
Truthy(v) == v # None /\ v # <<>>

Punct == {"/", ",", ";", "TAB"}
Quote == "Q"

\* (mutant) the tab is missing from the candidates
CandidatesNoTab == <<",", ";">>

\* The candidate delimiters smart_read_csv hands to the sniffer, in its order.
Candidates == <<",", "TAB", ";">>
\* csv.Sniffer.preferred restricted to the characters of the model.
Preferred == <<",", "TAB", ";">>

Range(s) == {s[i] : i \in 1..Len(s)}
Max(a, b) == IF a >= b THEN a ELSE b
Count(s, t) == Cardinality({i \in 1..Len(s) : s[i] = t})

Ok(v) == [err |-> "none", val |-> v]
Raise(e, v) == [err |-> e, val |-> v]

-----------------------------------------------------------------------------
(* The metadata file as text.  A table is a sequence of rows, the first the *)
(* header, each row a sequence of cells, each cell a text.  Its file under  *)
(* separator sep joins the cells of a row by sep and wraps a cell that      *)
(* contains sep in double quotes (what csv writers do).                     *)

RECURSIVE Join(_, _)
Join(cells, sep) ==
    IF cells = <<>> THEN <<>>
    ELSE IF Len(cells) = 1 THEN cells[1]
    ELSE cells[1] \o <<sep>> \o Join(Tail(cells), sep)

QuoteCell(cell, sep) == IF sep \in Range(cell) THEN <<Quote>> \o cell \o <<Quote>> ELSE cell

WriteLine(row, sep) == Join([i \in 1..Len(row) |-> QuoteCell(row[i], sep)], sep)

FileText(file) == [i \in 1..Len(file.table) |-> WriteLine(file.table[i], file.sep)]

-----------------------------------------------------------------------------
(* csv.Sniffer().sniff(first_line, [",", "\t", ";"]) on one line.           *)

\* The least e in from..Len(line) with line[e] = Quote that ok(e) accepts, 0 if none.
ClosingQuote(line, from, ok(_)) ==
    LET S == {e \in from..Len(line) : line[e] = Quote /\ ok(e)}
    IN IF S = {} THEN 0 ELSE CHOOSE e \in S : \A f \in S : e <= f

\* regex 1  <delim><quote>.*?<quote><same delim> : the delimiters of its
\* non-overlapping matches, leftmost first, scanning from position from.
RECURSIVE DelimQuoteDelim(_, _)
DelimQuoteDelim(line, from) ==
    LET n == Len(line)
        End(s) == ClosingQuote(line, s + 2, LAMBDA e : e + 1 <= n /\ line[e + 1] = line[s])
        S == {s \in from..n : /\ s + 1 <= n
                              /\ line[s] \in Punct
                              /\ line[s + 1] = Quote
                              /\ End(s) # 0}
    IN IF S = {} THEN <<>>
       ELSE LET s == CHOOSE x \in S : \A y \in S : x <= y
            IN <<line[s]>> \o DelimQuoteDelim(line, End(s) + 2)

\* regex 2  ^<quote>.*?<quote><delim>
QuoteDelim(line) ==
    LET n == Len(line)
        e == ClosingQuote(line, 2, LAMBDA x : x + 1 <= n /\ line[x + 1] \in Punct)
    IN IF n >= 1 /\ line[1] = Quote /\ e # 0 THEN <<line[e + 1]>> ELSE <<>>

\* regex 3  <delim><quote>.*?<quote>$
DelimQuote(line) ==
    LET n == Len(line)
        S == {s \in 1..n : /\ s + 2 <= n
                           /\ line[s] \in Punct
                           /\ line[s + 1] = Quote
                           /\ line[n] = Quote}
    IN IF S = {} THEN <<>> ELSE <<line[CHOOSE x \in S : \A y \in S : x <= y]>>

\* The delimiter that occurs most often in found, the earliest on a tie; "" if none.
MostFrequent(found) ==
    IF found = <<>> THEN ""
    ELSE LET best == CHOOSE i \in 1..Len(found) :
                        /\ \A j \in 1..Len(found) : Count(found, found[j]) <= Count(found, found[i])
                        /\ \A j \in 1..(i - 1) : Count(found, found[j]) < Count(found, found[i])
         IN found[best]

\* The matches of the first regex that has any; a fourth regex,
\* ^<quote>.*?<quote>$, names no delimiter, so its matches count for none.
FirstMatching(r1, r2, r3) ==
    IF r1 # <<>> THEN r1
    ELSE IF r2 # <<>> THEN r2
    ELSE r3

\* Sniffer._guess_quote_and_delimiter: the first regex with a match decides;
\* a matched delimiter counts only when it is a candidate.
GuessQuoteAndDelimiter(line) ==
    MostFrequent(SelectSeq(FirstMatching(DelimQuoteDelim(line, 1), QuoteDelim(line), DelimQuote(line)),
                           LAMBDA t : t \in Range(Candidates)))

\* Sniffer._guess_delimiter on a single line: the candidates that occur in the
\* line; one of them wins alone, several are settled by Sniffer.preferred.
GuessDelimiter(line) ==
    LET present == {c \in Range(Candidates) : Count(line, c) > 0}
    IN IF present = {} THEN ""
       ELSE Preferred[CHOOSE i \in 1..Len(Preferred) :
                         /\ Preferred[i] \in present
                         /\ \A j \in 1..(i - 1) : Preferred[j] \notin present]

\* Sniffer.sniff: the quote heuristic first, the frequency heuristic when it
\* names no delimiter, csv.Error when neither does.
OrGuess(delimiter, line) == IF delimiter # "" THEN delimiter ELSE GuessDelimiter(line)
Dialect(delimiter) == IF delimiter = "" THEN Raise("csv.Error", "") ELSE Ok(delimiter)
Sniff(line) == Dialect(OrGuess(GuessQuoteAndDelimiter(line), line))

-----------------------------------------------------------------------------
(* pd.read_csv(path, sep=delimiter): the tokenizer and the frame it builds. *)

\* The fields of one line; st is the tokenizer's state.
RECURSIVE Tokenize(_, _, _, _, _, _)
Tokenize(line, sep, pos, st, cur, fields) ==
    IF pos > Len(line) THEN Append(fields, cur)
    ELSE LET c == line[pos]
         IN CASE st = "start_field" ->
                   IF c = sep THEN Tokenize(line, sep, pos + 1, "start_field", <<>>, Append(fields, cur))
                   ELSE IF c = Quote THEN Tokenize(line, sep, pos + 1, "in_quoted", cur, fields)
                   ELSE Tokenize(line, sep, pos + 1, "in_field", Append(cur, c), fields)
              [] st = "in_field" ->
                   IF c = sep THEN Tokenize(line, sep, pos + 1, "start_field", <<>>, Append(fields, cur))
                   ELSE Tokenize(line, sep, pos + 1, "in_field", Append(cur, c), fields)
              [] st = "in_quoted" ->
                   IF c = Quote THEN Tokenize(line, sep, pos + 1, "quote_in_quoted", cur, fields)
                   ELSE Tokenize(line, sep, pos + 1, "in_quoted", Append(cur, c), fields)
              [] OTHER ->  \* quote_in_quoted
                   IF c = Quote THEN Tokenize(line, sep, pos + 1, "in_quoted", Append(cur, c), fields)
                   ELSE IF c = sep THEN Tokenize(line, sep, pos + 1, "start_field", <<>>, Append(fields, cur))
                   ELSE Tokenize(line, sep, pos + 1, "in_field", Append(cur, c), fields)

Fields(line, sep) == Tokenize(line, sep, 1, "start_field", <<>>, <<>>)

DupSuffix == <<"1", "2", "3", "4", "5", "6">>
Position == <<"0", "1", "2", "3", "4", "5">>

\* Header names: an empty name becomes Unnamed: i, a repeated one gets .1, .2, ...
ColumnNames(header) ==
    LET named == [i \in 1..Len(header) |->
                     IF header[i] = <<>> THEN <<"Unnamed: ", Position[i]>> ELSE header[i]]
    IN [i \in 1..Len(named) |->
           LET before == Cardinality({j \in 1..(i - 1) : named[j] = named[i]})
           IN IF before = 0 THEN named[i] ELSE named[i] \o <<".", DupSuffix[before]>>]

NoFrame == [columns |-> <<>>, index |-> <<>>, data |-> <<>>]

\* The frame: a data row shorter than the widest expected is filled with NaN,
\* columns the first data row has beyond the header become the index, a later
\* row wider than that is a ParserError.
Frame(lines) ==
    LET header == lines[1]
        k == Len(header)
        body == Tail(lines)
        lead == IF body = <<>> THEN 0 ELSE Max(Len(body[1]) - k, 0)
        Cell(r, j) == IF j > Len(r) \/ r[j] = <<>> THEN NaN ELSE r[j]
    IN IF \E i \in 1..Len(body) : Len(body[i]) > k + lead
       THEN Raise("ParserError", NoFrame)
       ELSE Ok([columns |-> ColumnNames(header),
                index |-> [i \in 1..Len(body) |-> [j \in 1..lead |-> Cell(body[i], j)]],
                data |-> [i \in 1..Len(body) |-> [j \in 1..k |-> Cell(body[i], lead + j)]]])

ReadCsv(text, sep) == Frame([i \in 1..Len(text) |-> Fields(text[i], sep)])

\* pd.read_csv(path, sep=dialect.delimiter), unless the sniffer raised
ReadSniffed(text, dialect) ==
    IF dialect.err # "none" THEN Raise(dialect.err, NoFrame) ELSE ReadCsv(text, dialect.val)

\* smart_read_csv; the first line of an empty file is empty
smart_read_csv(text) ==
    IF text = <<>> THEN Raise("csv.Error", NoFrame) ELSE ReadSniffed(text, Sniff(text[1]))


-----------------------------------------------------------------------------
(* Paths *)

\* The parts of s between separators, empty parts dropped.
RECURSIVE Parts(_, _, _)
Parts(s, sep, cur) ==
    IF s = <<>> THEN (IF cur = <<>> THEN <<>> ELSE <<cur>>)
    ELSE IF s[1] = sep
         THEN (IF cur = <<>> THEN <<>> ELSE <<cur>>) \o Parts(Tail(s), sep, <<>>)
         ELSE Parts(Tail(s), sep, Append(cur, s[1]))

\* (mutant) the path itself, directories kept
WholePath(s) == s

\* Path(s).name: the last component
PathName(s) ==
    LET parts == Parts(s, "/", <<>>)
    IN IF parts = <<>> THEN <<>> ELSE parts[Len(parts)]

\* str(Path(root) / name)
JoinPath(root, name) ==
    LET IsAbs(p) == p # <<>> /\ p[1] = "/"
        Str(p) == (IF IsAbs(p) THEN <<"/">> ELSE <<>>) \o Join(Parts(p, "/", <<>>), "/")
        joined == IF IsAbs(name) THEN name
                  ELSE IF root = <<>> THEN name
                  ELSE root \o <<"/">> \o name
    IN IF Str(joined) = <<>> THEN <<".">> ELSE Str(joined)

\* (mutant) the prefix is left in place
StripNothing(s) == s

\* .str.replace(r"^audio/", "", regex=True) on one cell
StripAudioPrefix(s) ==
    IF s = NaN THEN NaN
    ELSE IF Len(s) >= 2 /\ s[1] = "audio" /\ s[2] = "/" THEN SubSeq(s, 3, Len(s))
    ELSE s

-----------------------------------------------------------------------------
(* Step 1: the metadata lookup (lines 50-52) *)

NoLookup == [k \in {} |-> None]

ColumnIndex(df, name) == CHOOSE j \in 1..Len(df.columns) : df.columns[j] = name

\* meta_df["basename"] = ...; meta_df.set_index("basename").to_dict(orient="index")
BuildLookup(df) ==
    IF <<"filename">> \notin Range(df.columns) THEN Raise("KeyError", NoLookup)
    ELSE
    LET f == ColumnIndex(df, <<"filename">>)
        basename == [i \in 1..Len(df.data) |-> StripAudioPrefix(df.data[i][f])]
        cols == Range(df.columns) \ {<<"basename">>}
    IN IF \E i, j \in 1..Len(basename) : i # j /\ basename[i] = basename[j]
       THEN Raise("ValueError", NoLookup)
       ELSE Ok([k \in Range(basename) |->
                  LET i == CHOOSE r \in 1..Len(basename) : basename[r] = k
                  IN [c \in cols |-> df.data[i][ColumnIndex(df, c)]]])

LookupOf(df) == IF df.err # "none" THEN Raise(df.err, NoLookup) ELSE BuildLookup(df.val)

ReadMetaResult(file) == LookupOf(smart_read_csv(FileText(file)))

-----------------------------------------------------------------------------
(* Step 2: the annotation document (lines 55-56) *)

\* (mutant) .get("files", []) in place of ["files"]
LoadFilesOrEmpty(doc) ==
    CASE doc.kind = "unparsable" -> Raise("YAMLError", <<>>)
      [] doc.kind = "null" -> Raise("TypeError", <<>>)
      [] doc.kind = "mapping" /\ "files" \notin doc.keys -> Ok(<<>>)
      [] OTHER -> Ok(doc.files)

\* yaml.safe_load(f)["files"]
LoadFiles(doc) ==
    CASE doc.kind = "unparsable" -> Raise("YAMLError", <<>>)
      [] doc.kind = "null" -> Raise("TypeError", <<>>)
      [] doc.kind = "mapping" /\ "files" \notin doc.keys -> Raise("KeyError", <<>>)
      [] OTHER -> Ok(doc.files)

-----------------------------------------------------------------------------
(* Step 3: one record per annotation group (lines 62-84) *)

Sentences(annotations) == [i \in 1..Len(annotations) |-> annotations[i].sentence]
\* (mutant) annotations without tags are skipped
TagsNonEmpty(annotations) ==
    SelectSeq([i \in 1..Len(annotations) |-> annotations[i].tags], LAMBDA t : t # <<>>)

Tags(annotations) == [i \in 1..Len(annotations) |-> annotations[i].tags]
Annotators(annotations) == [i \in 1..Len(annotations) |-> annotations[i].annotator_id]

\* meta_lookup.get(basename, {})
LookupGet(lookup, basename) ==
    IF basename \in DOMAIN lookup THEN lookup[basename] ELSE [c \in {} |-> None]

\* (mutant) m.get(column, "")
DictGetOrEmpty(m, column) == IF column \in DOMAIN m THEN m[column] ELSE <<>>

\* m.get(column)
DictGet(m, column) == IF column \in DOMAIN m THEN m[column] ELSE None

Row(item, basename, m, root) ==
       [filename |-> basename,
        scene |-> DictGet(m, <<"scene_label">>),
        audio |-> JoinPath(root, basename),
        captions |-> Sentences(item.annotations),
        tags |-> Tags(item.annotations),
        annotators |-> Annotators(item.annotations),
        audio_identifier |-> DictGet(m, <<"identifier">>),
        audio_source_label |-> DictGet(m, <<"source_label">>)]

Joined(item, basename, lookup, root) == Row(item, basename, LookupGet(lookup, basename), root)
MakeRow(item, lookup, root) == Joined(item, PathName(item.filename), lookup, root)

\* (mutant) rows.insert(0, row)
PrependRow(rs, row) == <<row>> \o rs

\* rows.append(row)
AppendRow(rs, row) == Append(rs, row)


-----------------------------------------------------------------------------
(* Inputs *)

MaxFiles == 2    \* annotation groups in the document

Header == << <<"filename">>, <<"scene_label">>, <<"identifier">>, <<"source_label">> >>
RowA1 == << <<"audio", "/", "a1.wav">>, <<"park">>, <<"id1">>, <<"src1">> >>
RowB2 == << <<"audio", "/", "b2.wav">>, <<"street", ",", "traffic">>, <<"id2">>, <<"src2">> >>
RowData == << <<"data", "/", "a1.wav">>, <<"bus">>, <<"id3">>, <<"src3">> >>
RowBare == << <<"a1.wav">>, <<"mall">>, <<"id4">>, <<"src4">> >>

MetaTables == { <<Header>>,
                <<Header, RowA1>>,
                <<Header, RowA1, RowB2>>,
                <<Header, RowB2, RowA1>>,
                <<Header, RowData>>,
                <<Header, RowBare, RowB2>>,
                <<Header, RowA1, RowBare>> }

MetaFiles == [sep : Range(Candidates), table : MetaTables]

Ann1 == [sentence |-> <<"birds chirping">>, tags |-> << <<"nature">> >>, annotator_id |-> 3]
Ann2 == [sentence |-> <<"cars passing">>, tags |-> <<>>, annotator_id |-> 7]
Ann3 == [sentence |-> <<"people talking">>, tags |-> << <<"speech">>, <<"crowd">> >>, annotator_id |-> 3]

\* An entry of the files list: keys are the keys it has (the last one lacks
\* its annotations).
Complete == {"filename", "annotations"}
Items == { [keys |-> Complete, filename |-> <<"somepath", "/", "a1.wav">>, annotations |-> <<Ann1>>],
           [keys |-> Complete, filename |-> <<"a1.wav">>, annotations |-> <<Ann2, Ann1>>],
           [keys |-> Complete, filename |-> <<"b2.wav">>, annotations |-> <<>>],
           [keys |-> Complete, filename |-> <<"audio", "/", "b2.wav">>, annotations |-> <<Ann1, Ann2, Ann3>>],
           [keys |-> {"filename"}, filename |-> <<"c3.wav">>, annotations |-> <<>>] }

FileLists == UNION {[1..n -> Items] : n \in 0..MaxFiles}

YamlDocs == {[kind |-> "mapping", keys |-> {"files"}, files |-> fs] : fs \in FileLists}
            \cup {[kind |-> "mapping", keys |-> {"name"}, files |-> <<>>],
                  [kind |-> "null", keys |-> {}, files |-> <<>>],
                  [kind |-> "unparsable", keys |-> {}, files |-> <<>>]}

AudioRoot == <<"MACS_raw", "/", "audio">>
OutDirs == {None, <<"macs_hf">>}
Repos == {None, <<"username", "/", "MACS_captions">>}
Tokens == {None, <<"hf_secret">>}

NoDataset == [built |-> FALSE, rows |-> <<>>]
NoTable == <<>>
NoRead == [err |-> "unread", val |-> NoFrame, lookup |-> Raise("unread", NoLookup)]

-----------------------------------------------------------------------------
(* convert_macs_to_hf *)

Locals ==
    /\ pc = "read_meta"
    /\ meta_lookup = NoLookup
    /\ yaml_items = <<>>
    /\ idx = 0
    /\ rows = <<>>
    /\ ds_all = NoDataset
    /\ err = "none"
    /\ failed_at = "none"
    /\ written = FALSE
    /\ pushed = FALSE
    /\ returned = FALSE

Init ==
    /\ audio_root = AudioRoot
    /\ meta_csv \in MetaFiles
    /\ yaml_file \in YamlDocs
    /\ out_dir \in OutDirs
    /\ push_to_hub \in Repos
    /\ hf_token \in Tokens
    /\ Locals
    /\ second_run = FALSE
    /\ prev_rows = <<>>
    /\ csv_table = NoTable
    /\ csv_comma = NoRead
    /\ csv_tab = NoRead

inputs == <<audio_root, meta_csv, yaml_file, out_dir, push_to_hub, hf_token>>

Fail(step, e) ==
    /\ pc' = "failed"
    /\ err' = e
    /\ failed_at' = step

MetaRead(r) ==
    IF r.err # "none" THEN Fail("read_meta", r.err) /\ UNCHANGED meta_lookup
    ELSE /\ meta_lookup' = r.val
         /\ pc' = "load_yaml"
         /\ UNCHANGED <<err, failed_at>>

\* lines 50-52; open() may fail
ReadMeta ==
    /\ pc = "read_meta"
    /\ \E readable \in BOOLEAN :
         IF ~readable THEN Fail("read_meta", "OSError") /\ UNCHANGED meta_lookup
         ELSE MetaRead(ReadMetaResult(meta_csv))
    /\ UNCHANGED <<inputs, yaml_items, idx, rows, ds_all, written, pushed, returned,
                   second_run, prev_rows, csv_vars>>

YamlLoaded(r) ==
    IF r.err # "none" THEN Fail("load_yaml", r.err) /\ UNCHANGED yaml_items
    ELSE /\ yaml_items' = r.val
         /\ pc' = "join"
         /\ UNCHANGED <<err, failed_at>>

\* lines 55-58; open() may fail
LoadYaml ==
    /\ pc = "load_yaml"
    /\ \E readable \in BOOLEAN :
         IF ~readable THEN Fail("load_yaml", "OSError") /\ UNCHANGED yaml_items
         ELSE YamlLoaded(LoadFiles(yaml_file))
    /\ UNCHANGED <<inputs, meta_lookup, idx, rows, ds_all, written, pushed, returned,
                   second_run, prev_rows, csv_vars>>

\* (mutant) the groups are visited in an order that is not fixed: the record
\* lands at either end of rows
JoinStepUnordered ==
    /\ pc = "join"
    /\ idx < Len(yaml_items)
    /\ IF "annotations" \notin yaml_items[idx + 1].keys
       THEN Fail("join", "KeyError") /\ UNCHANGED <<idx, rows>>
       ELSE /\ idx' = idx + 1
            /\ \E front \in BOOLEAN :
                 rows' = IF front
                         THEN <<MakeRow(yaml_items[idx + 1], meta_lookup, audio_root)>> \o rows
                         ELSE Append(rows, MakeRow(yaml_items[idx + 1], meta_lookup, audio_root))
            /\ UNCHANGED <<pc, err, failed_at>>
    /\ UNCHANGED <<inputs, meta_lookup, yaml_items, ds_all, written, pushed, returned,
                   second_run, prev_rows, csv_vars>>

\* one iteration of the for loop, lines 62-84; item["annotations"] raises
\* KeyError on an entry without annotations
JoinStep ==
    /\ pc = "join"
    /\ idx < Len(yaml_items)
    /\ IF "annotations" \notin yaml_items[idx + 1].keys
       THEN Fail("join", "KeyError") /\ UNCHANGED <<idx, rows>>
       ELSE /\ idx' = idx + 1
            /\ rows' = AppendRow(rows, MakeRow(yaml_items[idx + 1], meta_lookup, audio_root))
            /\ UNCHANGED <<pc, err, failed_at>>
    /\ UNCHANGED <<inputs, meta_lookup, yaml_items, ds_all, written, pushed, returned,
                   second_run, prev_rows, csv_vars>>

\* (mutant) the dataset is saved as soon as it is built, before the sample
CreateDatasetAndSave ==
    /\ pc = "join"
    /\ idx = Len(yaml_items)
    /\ IF rows = <<>>
       THEN Fail("create", "ValueError") /\ UNCHANGED <<ds_all, written>>
       ELSE /\ ds_all' = [built |-> TRUE, rows |-> rows]
            /\ written' = Truthy(out_dir)
            /\ pc' = "sample"
            /\ UNCHANGED <<err, failed_at>>
    /\ UNCHANGED <<inputs, meta_lookup, yaml_items, idx, rows, pushed, returned,
                   second_run, prev_rows, csv_vars>>

\* lines 89-104: datasets.Dataset.from_pandas(pd.DataFrame(rows), features=...).
\* A frame of no rows has no columns, which the declared features do not fit.
CreateDataset ==
    /\ pc = "join"
    /\ idx = Len(yaml_items)
    /\ IF rows = <<>>
       THEN Fail("create", "ValueError") /\ UNCHANGED ds_all
       ELSE /\ ds_all' = [built |-> TRUE, rows |-> rows]
            /\ pc' = "sample"
            /\ UNCHANGED <<err, failed_at>>
    /\ UNCHANGED <<inputs, meta_lookup, yaml_items, idx, rows, written, pushed, returned,
                   second_run, prev_rows, csv_vars>>

\* lines 107-108: ds_all[0] decodes the first row's audio file, which may be absent
PrintSample ==
    /\ pc = "sample"
    /\ \E decodable \in BOOLEAN :
         IF Len(ds_all.rows) = 0 THEN Fail("sample", "IndexError")
         ELSE IF ~decodable THEN Fail("sample", "OSError")
         ELSE pc' = "save" /\ UNCHANGED <<err, failed_at>>
    /\ UNCHANGED <<inputs, meta_lookup, yaml_items, idx, rows, ds_all, written, pushed,
                   returned, second_run, prev_rows, csv_vars>>

\* lines 111-116; a save that fails may leave files behind
Save ==
    /\ pc = "save"
    /\ IF Truthy(out_dir)
       THEN \/ /\ written' = TRUE
               /\ pc' = "login"
               /\ UNCHANGED <<err, failed_at>>
            \/ /\ written' \in BOOLEAN
               /\ Fail("save", "OSError")
       ELSE /\ pc' = "login"
            /\ UNCHANGED <<written, err, failed_at>>
    /\ UNCHANGED <<inputs, meta_lookup, yaml_items, idx, rows, ds_all, pushed, returned,
                   second_run, prev_rows, csv_vars>>

\* lines 119-124
Login ==
    /\ pc = "login"
    /\ IF Truthy(push_to_hub) /\ Truthy(hf_token)
       THEN \/ pc' = "push" /\ UNCHANGED <<err, failed_at>>
            \/ Fail("login", "HTTPError")
       ELSE pc' = "push" /\ UNCHANGED <<err, failed_at>>
    /\ UNCHANGED <<inputs, meta_lookup, yaml_items, idx, rows, ds_all, written, pushed,
                   returned, second_run, prev_rows, csv_vars>>

\* lines 126-130; a push that fails may have uploaded files
Push ==
    /\ pc = "push"
    /\ IF Truthy(push_to_hub)
       THEN \/ /\ pushed' = TRUE
               /\ pc' = "return"
               /\ UNCHANGED <<err, failed_at>>
            \/ /\ pushed' \in BOOLEAN
               /\ Fail("push", "HTTPError")
       ELSE /\ pc' = "return"
            /\ UNCHANGED <<pushed, err, failed_at>>
    /\ UNCHANGED <<inputs, meta_lookup, yaml_items, idx, rows, ds_all, written, returned,
                   second_run, prev_rows, csv_vars>>

\* line 132
Return ==
    /\ pc = "return"
    /\ returned' = TRUE
    /\ pc' = "done"
    /\ UNCHANGED <<inputs, meta_lookup, yaml_items, idx, rows, ds_all, err, failed_at,
                   written, pushed, second_run, prev_rows, csv_vars>>

\* The converter is run again on the same inputs (a fresh process).
RunAgain ==
    /\ pc = "done"
    /\ ~second_run
    /\ second_run' = TRUE
    /\ prev_rows' = ds_all.rows
    /\ pc' = "read_meta"
    /\ meta_lookup' = NoLookup
    /\ yaml_items' = <<>>
    /\ idx' = 0
    /\ rows' = <<>>
    /\ ds_all' = NoDataset
    /\ err' = "none"
    /\ failed_at' = "none"
    /\ written' = FALSE
    /\ pushed' = FALSE
    /\ returned' = FALSE
    /\ UNCHANGED <<inputs, csv_vars>>

Next ==
    \/ ReadMeta
    \/ LoadYaml
    \/ JoinStep
    \/ CreateDataset
    \/ PrintSample
    \/ Save
    \/ Login
    \/ Push
    \/ Return
    \/ RunAgain

Spec == Init /\ [][Next]_vars


-----------------------------------------------------------------------------
(* smart_read_csv alone: one table written once with commas and once with   *)
(* tabs, each file read by smart_read_csv and turned into the lookup.       *)

MaxCols == 2    \* columns of the table

HeaderCells == { <<"filename">>, <<"scene_label">>, <<"file", ",", "name">>,
                 <<"scene", ";", "label">>, <<"scene", "TAB", "label">> }
DataCells == { <<"audio", "/", "a1.wav">>, <<"park">>, <<"city", ",", "park">>,
               <<"city", "TAB", "park">> }

CsvTables ==
    UNION { { <<h, d>> : h \in {x \in [1..n -> HeaderCells] : \A i, j \in 1..n : i # j => x[i] # x[j]},
                         d \in [1..n -> DataCells] } : n \in 1..MaxCols }

\* smart_read_csv and lines 51-52 on the file of table under sep
WithLookup(df) == [err |-> df.err, val |-> df.val, lookup |-> LookupOf(df)]
ReadAs(table, sep) == WithLookup(smart_read_csv(FileText([sep |-> sep, table |-> table])))

CsvInit ==
    /\ audio_root = AudioRoot
    /\ meta_csv = [sep |-> ",", table |-> <<Header>>]
    /\ yaml_file = [kind |-> "null", keys |-> {}, files |-> <<>>]
    /\ out_dir = None
    /\ push_to_hub = None
    /\ hf_token = None
    /\ Locals
    /\ second_run = FALSE
    /\ prev_rows = <<>>
    /\ csv_table \in CsvTables
    /\ csv_comma = NoRead
    /\ csv_tab = NoRead

ReadCommaFile ==
    /\ csv_comma.err = "unread"
    /\ csv_comma' = ReadAs(csv_table, ",")
    /\ UNCHANGED <<pipeline_vars, csv_table, csv_tab>>

ReadTabFile ==
    /\ csv_tab.err = "unread"
    /\ csv_tab' = ReadAs(csv_table, "TAB")
    /\ UNCHANGED <<pipeline_vars, csv_table, csv_comma>>

CsvNext == ReadCommaFile \/ ReadTabFile

CsvSpec == CsvInit /\ [][CsvNext]_vars


-----------------------------------------------------------------------------
(* Properties *)

\* The annotation groups of the document and the rows of the metadata table.
Groups == yaml_file.files
MetaRows == Tail(meta_csv.table)
HasFiles == yaml_file.kind = "mapping" /\ "files" \in yaml_file.keys
WellFormedGroups == HasFiles /\ \A i \in 1..Len(Groups) : Groups[i].keys = Complete

\* What follows the last "/" of s (all of s when it has none).
Basename(s) ==
    LET slashes == {i \in 1..Len(s) : s[i] = "/"}
        last == IF slashes = {} THEN 0 ELSE CHOOSE i \in slashes : \A j \in slashes : j <= i
    IN SubSeq(s, last + 1, Len(s))

\* The metadata key of a table row: its filename without one leading audio/.
MetaKey(r) ==
    IF Len(r[1]) >= 2 /\ SubSeq(r[1], 1, 2) = <<"audio", "/">> THEN SubSeq(r[1], 3, Len(r[1])) ELSE r[1]

UniqueMetaKeys == \A i, j \in 1..Len(MetaRows) : i # j => MetaKey(MetaRows[i]) # MetaKey(MetaRows[j])

EnvironmentErrors == {"OSError", "HTTPError"}

\* C1 (as claimed): on every valid input with N annotation groups the run
\* completes (no error but one of the environment) and the dataset has
\* exactly N rows.
C1_OneRowPerGroup ==
    (WellFormedGroups /\ UniqueMetaKeys) =>
        /\ pc = "failed" => err \in EnvironmentErrors
        /\ ds_all.built => Len(ds_all.rows) = Len(Groups)
        /\ pc = "done" => ds_all.built

\* C2: a group whose basename has no entry in the metadata mapping still gets
\* its record (every group consumed has one), with scene, audio_identifier
\* and audio_source_label None and filename, audio, captions, tags and
\* annotators taken from the group alone.
C2_MissingMetadataIsNull ==
    /\ pc = "join" => Len(rows) = idx
    /\ \A i \in 1..Len(rows) :
         LET g == Groups[i]
             name == Basename(g.filename)
         IN name \notin DOMAIN meta_lookup =>
              /\ rows[i].scene = None
              /\ rows[i].audio_identifier = None
              /\ rows[i].audio_source_label = None
              /\ rows[i].filename = name
              /\ rows[i].audio = audio_root \o <<"/">> \o name
              /\ Len(rows[i].captions) = Len(g.annotations)
              /\ Len(rows[i].tags) = Len(g.annotations)
              /\ Len(rows[i].annotators) = Len(g.annotations)
              /\ \A k \in 1..Len(g.annotations) :
                   /\ rows[i].captions[k] = g.annotations[k].sentence
                   /\ rows[i].tags[k] = g.annotations[k].tags
                   /\ rows[i].annotators[k] = g.annotations[k].annotator_id

C2_Witness ==
    /\ pc = "done"
    /\ \E i \in 1..Len(rows) :
         /\ Basename(Groups[i].filename) \notin DOMAIN meta_lookup
         /\ Groups[i].filename # Basename(Groups[i].filename)
         /\ Len(rows[i].captions) >= 2
         /\ rows[i].scene = None
    /\ \E i \in 1..Len(rows) : Basename(Groups[i].filename) \in DOMAIN meta_lookup

\* What a record takes from metadata row r and group g.
JoinedWith(row, r, g) ==
    /\ row.scene = r[2]
    /\ row.audio_identifier = r[3]
    /\ row.audio_source_label = r[4]
    /\ row.filename = Basename(g.filename)
    /\ row.audio = audio_root \o <<"/">> \o Basename(g.filename)

\* C3 (as claimed): a metadata row and a group whose filenames have the same
\* last path component, whatever directory each carries, are joined.
C3_JoinOnLastComponent ==
    \A i \in 1..Len(rows) : \A j \in 1..Len(MetaRows) :
        Basename(MetaRows[j][1]) = Basename(Groups[i].filename)
            => JoinedWith(rows[i], MetaRows[j], Groups[i])

\* C3 (amended): the group's key is its last path component, the metadata
\* row's key its filename without one leading audio/ (any other directory
\* stays in the key); a row and a group with equal keys are joined.
C3_JoinOnStrippedKey ==
    \A i \in 1..Len(rows) : \A j \in 1..Len(MetaRows) :
        MetaKey(MetaRows[j]) = Basename(Groups[i].filename)
            => JoinedWith(rows[i], MetaRows[j], Groups[i])

C3_Witness ==
    /\ pc = "done"
    /\ \E i \in 1..Len(rows) : \E j \in 1..Len(MetaRows) :
         /\ MetaKey(MetaRows[j]) = Basename(Groups[i].filename)
         /\ MetaRows[j][1] # MetaKey(MetaRows[j])
         /\ Groups[i].filename # Basename(Groups[i].filename)
         /\ rows[i].scene = MetaRows[j][2]
         /\ rows[i].scene # None

\* C4: in every record captions, tags and annotators are as long as the
\* group's annotation list and position k of each holds the sentence, tags
\* and annotator_id of the group's k-th annotation.
C4_AnnotationsAligned ==
    \A i \in 1..Len(rows) :
        LET a == Groups[i].annotations
        IN /\ Len(rows[i].captions) = Len(a)
           /\ Len(rows[i].tags) = Len(a)
           /\ Len(rows[i].annotators) = Len(a)
           /\ \A k \in 1..Len(a) :
                /\ rows[i].captions[k] = a[k].sentence
                /\ rows[i].tags[k] = a[k].tags
                /\ rows[i].annotators[k] = a[k].annotator_id

C4_Witness ==
    /\ pc = "done"
    /\ \E i \in 1..Len(rows) :
         /\ Len(rows[i].captions) >= 3
         /\ rows[i].tags[2] = <<>>
         /\ rows[i].annotators[1] # rows[i].annotators[2]

\* C5: the rows of the dataset are in document order: there are as many as
\* groups and row i carries the filename and the annotations of group i,
\* whatever the order of the metadata table.
C5_DocumentOrder ==
    /\ Len(rows) <= Len(Groups)
    /\ ds_all.built => Len(ds_all.rows) = Len(Groups)
    /\ \A i \in 1..Len(rows) :
         /\ rows[i].filename = Basename(Groups[i].filename)
         /\ rows[i].annotators = [k \in 1..Len(Groups[i].annotations) |->
                                     Groups[i].annotations[k].annotator_id]
    /\ \A i \in 1..Len(ds_all.rows) : ds_all.rows[i] = rows[i]

C5_Witness ==
    /\ pc = "done"
    /\ Len(ds_all.rows) = 2
    /\ ds_all.rows[1].filename # ds_all.rows[2].filename
    /\ Len(MetaRows) = 2
    /\ MetaKey(MetaRows[1]) = ds_all.rows[2].filename
    /\ MetaKey(MetaRows[2]) = ds_all.rows[1].filename

\* C6 (as claimed): no two rows of the emitted dataset have the same filename.
C6_FilenamesUnique ==
    ds_all.built =>
        \A i, j \in 1..Len(ds_all.rows) : i # j => ds_all.rows[i].filename # ds_all.rows[j].filename

\* C6 (amended): two rows of the dataset have the same filename exactly when
\* their groups' filenames have the same last path component; nothing is
\* deduplicated, so filename is unique only over documents whose groups have
\* distinct last path components.
C6_FilenamesAsGroups ==
    ds_all.built =>
        /\ Len(ds_all.rows) = Len(Groups)
        /\ \A i, j \in 1..Len(ds_all.rows) :
             (ds_all.rows[i].filename = ds_all.rows[j].filename)
                 <=> (Basename(Groups[i].filename) = Basename(Groups[j].filename))

C6_Witness ==
    /\ pc = "done"
    /\ Len(ds_all.rows) = 2
    /\ Groups[1].filename # Groups[2].filename
    /\ ds_all.rows[1].filename = ds_all.rows[2].filename

NothingProduced ==
    /\ rows = <<>>
    /\ ~ds_all.built
    /\ ~written
    /\ ~pushed
    /\ ~returned

\* The exceptions that report a malformed input as such.
FormatErrors == {"FormatError", "YAMLError", "csv.Error", "ParserError"}

C8_NothingEmittedOnError ==
    pc = "failed" => ~written /\ ~pushed

\* C8 (amended): a run that ends with an error raised before the save step
\* (reading the table, loading the document, joining, building the dataset,
\* printing the sample) has written and pushed nothing; an error at login or push
\* comes after the save, so with an output directory given the dataset is
\* already on disk, and an error before the push has pushed nothing.
C8_NothingEmittedBeforeSave ==
    pc = "failed" =>
        /\ ~returned
        /\ failed_at \in {"read_meta", "load_yaml", "join", "create", "sample"} => ~written /\ ~pushed
        /\ failed_at \in {"save", "login"} => ~pushed
        /\ failed_at \in {"login", "push"} => (written <=> Truthy(out_dir))

C8_Witness ==
    /\ pc = "failed"
    /\ failed_at = "sample"
    /\ ds_all.built
    /\ Truthy(out_dir)
    /\ Truthy(push_to_hub)
    /\ ~written

BothRead == csv_comma.err # "unread" /\ csv_tab.err # "unread"
CsvHeader == csv_table[1]

\* C9 (as claimed): the comma-separated and the tab-separated file of one
\* table are read into the same frame and give the same lookup.
C9_DelimiterTransparent ==
    BothRead => csv_comma = csv_tab

\* C9 (amended): they are, the frame being the table itself, when the table
\* has at least two columns and no cell of its header contains a comma (the
\* sniffer sees the first line only and prefers the comma).
C9_TransparentWithoutHeaderCommas ==
    (BothRead /\ Len(CsvHeader) >= 2 /\ \A j \in 1..Len(CsvHeader) : "," \notin Range(CsvHeader[j])) =>
        /\ csv_comma = csv_tab
        /\ csv_tab.err = "none"
        /\ csv_tab.val.columns = CsvHeader
        /\ csv_tab.val.data = Tail(csv_table)

C9_Witness ==
    /\ BothRead
    /\ Len(CsvHeader) >= 2
    /\ \A j \in 1..Len(CsvHeader) : "," \notin Range(CsvHeader[j])
    /\ \E j \in 1..Len(CsvHeader) : "TAB" \in Range(CsvHeader[j])
    /\ \E j \in 1..Len(CsvHeader) : "," \in Range(csv_table[2][j])
    /\ csv_comma.lookup.err = "none"
    /\ csv_comma = csv_tab

====
